---------------------------- MODULE Spec2Model ----------------------------
(***************************************************************************)
(* Model of server.js: the in-memory session store, the POST /api/ai       *)
(* handler with its single suspension point (await callGemini), and the    *)
(* periodic expiry sweep.                                                  *)
(*                                                                         *)
(* JavaScript values are modelled as follows.  An object is a record; a    *)
(* property that is undefined is a field the record does not have.  An     *)
(* array is identified by a reference (an index into heap), because the    *)
(* handler keeps a reference to the history array across the await while   *)
(* the sweep may delete the session that owns it.  Times are the           *)
(* millisecond values returned by Date.now().                              *)
(*                                                                         *)
(* Each action is one run of the event loop: JavaScript runs a callback to *)
(* its end or to its await, so Post is the handler up to await callGemini, *)
(* Resume the handler from there to its response, SweepExpired the         *)
(* setInterval callback.  Date.now() is the wall clock and belongs to the  *)
(* environment: Spec lets it advance by any amount between two callbacks,  *)
(* also while a request is suspended, and lets the sweep run at any        *)
(* instant after the first.  The upstream service is the environment too:  *)
(* Resume takes whatever axios.post produces.  SpecTimed is the program    *)
(* under a clock that keeps the timers: the sweep runs every minute, and   *)
(* an upstream call settles no later than its 30 s timeout.                *)
(*                                                                         *)
(* The middleware in front of the handler (cors, express.json, multer,     *)
(* the rate limiter) and GET /api/health hold no state of the session      *)
(* store and are not modelled; fewer requests are made than the limiter    *)
(* allows.                                                                 *)
(***************************************************************************)
EXTENDS Integers, Sequences, FiniteSets, TLC

VARIABLES
    now,        \* the value Date.now() returns
    timerDue,   \* the setInterval callback is queued on the event loop
    sessions,   \* own properties of the sessions object: id -> session
    inherited,  \* properties sessions inherits from Object.prototype
    heap,       \* the arrays allocated so far, by reference
    req,        \* the handler invocations: locals and response sent
    posted,     \* the payload arrays passed to axios.post, in call order
    sentAt      \* when axios.post was called for a request and its timeout
                \* started to run (kept by the timed specification only)

vars == <<now, timerDue, sessions, inherited, heap, req, posted, sentAt>>

-----------------------------------------------------------------------------
(* Bounds of the model *)

MaxReq == 2     \* number of POST /api/ai requests received
MaxSkew == 1    \* the clock is read at 0..MaxSkew and at MaxSkew past the expiry
MaxEarly == 1   \* timed clock: half sweep periods counted from the start
MaxLate == 2    \* timed clock: half sweep periods counted from the expiry

-----------------------------------------------------------------------------
(* Program constants *)

SESSION_EXPIRY == 30 * 60 * 1000

\* no timeout that matters: longer than any session lives
UpstreamTimeoutOff == 2 * (30 * 60 * 1000)

\* the timeout of axios.post
UPSTREAM_TIMEOUT == 30000

\* the period of the setInterval sweep
SWEEP_EVERY == 60 * 1000

\* another name for the session of requests without sessionId
DefaultSessionIdAnon == "anonymous"

DefaultSessionId == "default"

NoResponseText == "No response from AI."

InvalidInputError == "Either text or image is required"

UpstreamErrorMessage == "Failed to get AI response"

\* message of the TypeError thrown by a property read on undefined
TypeErrorMessage == "Cannot read properties of undefined"

-----------------------------------------------------------------------------
(* Inputs *)

ReqIds == 1..MaxReq

\* instants at which the environment lets the program read the clock
Times == (0..MaxSkew) \cup {SESSION_EXPIRY + MaxSkew}

\* the instants of the timed clock: every half sweep period for a while
\* after the start, and again from SESSION_EXPIRY after the start
Instants ==
    {k * (SWEEP_EVERY \div 2) : k \in 0..MaxEarly}
        \cup {SESSION_EXPIRY + k * (SWEEP_EVERY \div 2) : k \in 0..MaxLate}

\* req.body as parsed by express.json / multer
Bodies ==
    { [prompt |-> "Hello"],
      [prompt |-> "Hello", sessionId |-> "default"],
      [prompt |-> "Hello", sessionId |-> "a"],
      [prompt |-> "", sessionId |-> "a"],
      [sessionId |-> "a"],
      [prompt |-> "Hello", sessionId |-> "constructor"] }

\* req.file as set by upload.single('image')
Files == { [mimetype |-> "image/png", buffer |-> <<137, 80>>] }

\* the requests received: a body, and a file when the image field is sent
Requests ==
    { [body |-> b] : b \in Bodies \ {[prompt |-> "Hello", sessionId |-> "a"]} }
        \cup { [body |-> b, file |-> f] :
                 b \in { [prompt |-> "Hello", sessionId |-> "a"],
                         [prompt |-> "", sessionId |-> "a"],
                         [sessionId |-> "a"] },
                 f \in Files }

\* what axios.post does: it throws (network error, timeout, non-2xx) or it
\* resolves with a response whose data is the parsed body
Responses ==
    { [threw |-> TRUE],
      [data |-> [candidates |->
          << [content |-> [role |-> "model",
                           parts |-> << [text |-> "Hi there"] >>]] >>]],
      [data |-> [candidates |-> << >>]],
      [data |-> [promptFeedback |-> "blocked"]],
      [data |-> [candidates |-> << [content |-> [role |-> "model"]] >>]] }

-----------------------------------------------------------------------------
(* Helpers for JavaScript values *)

Has(obj, field) == field \in DOMAIN obj

\* !x for a string-valued optional property
Falsy(obj, field) == ~Has(obj, field) \/ obj[field] = ""

Base64Alphabet ==
    << "A","B","C","D","E","F","G","H","I","J","K","L","M","N","O","P",
       "Q","R","S","T","U","V","W","X","Y","Z","a","b","c","d","e","f",
       "g","h","i","j","k","l","m","n","o","p","q","r","s","t","u","v",
       "w","x","y","z","0","1","2","3","4","5","6","7","8","9","+","/" >>

Sextet(n) == Base64Alphabet[n + 1]

RECURSIVE Base64(_)
\* Buffer.prototype.toString('base64'): the characters of the encoding
Base64(bytes) ==
    IF Len(bytes) = 0 THEN << >>
    ELSE IF Len(bytes) = 1 THEN
        << Sextet(bytes[1] \div 4), Sextet((bytes[1] % 4) * 16), "=", "=" >>
    ELSE IF Len(bytes) = 2 THEN
        << Sextet(bytes[1] \div 4),
           Sextet((bytes[1] % 4) * 16 + bytes[2] \div 16),
           Sextet((bytes[2] % 16) * 4), "=" >>
    ELSE
        << Sextet(bytes[1] \div 4),
           Sextet((bytes[1] % 4) * 16 + bytes[2] \div 16),
           Sextet((bytes[2] % 16) * 4 + bytes[3] \div 64),
           Sextet(bytes[3] % 64) >>
            \o Base64(SubSeq(bytes, 4, Len(bytes)))

-----------------------------------------------------------------------------
(* The session store *)

\* Object.keys(sessions)
Keys(ss) == DOMAIN ss

\* sessions[sessionId] is truthy: an own property or an inherited one
Truthy(ss, inh, id) == id \in DOMAIN ss \/ id \in DOMAIN inh

\* the sweep's comparison with <= in place of <
ExpiredInclusive(session, t) == session.lastActive <= t - SESSION_EXPIRY

\* the sweep's comparison with twice the expiry
ExpiredTwice(session, t) == session.lastActive < t - 2 * SESSION_EXPIRY

\* the condition of the sweep for one session
Expired(session, t) == session.lastActive < t - SESSION_EXPIRY

\* a sweep that also refreshes the sessions it keeps
SweepRefresh(ss, t) ==
    [id \in {k \in DOMAIN ss : ~(ss[k].lastActive < t - SESSION_EXPIRY)} |->
        [ss[id] EXCEPT !.lastActive = t]]

\* the sessions object after the forEach of the sweep
Sweep(ss, t) ==
    [id \in {k \in Keys(ss) : ~Expired(ss[k], t)} |-> ss[id]]

\* "initialize or update" without line 78: lastActive is set at creation only
GetOrCreateNoRefresh(ss, inh, id, ref, t) ==
    IF id \in DOMAIN ss \/ id \in DOMAIN inh
    THEN ss
    ELSE [k \in DOMAIN ss \cup {id} |->
            IF k = id THEN [history |-> ref, lastActive |-> t] ELSE ss[k]]

\* "initialize or update" that refreshes lastActive of every stored session
GetOrCreateTouchAll(ss, inh, id, ref, t) ==
    LET keys == IF id \in DOMAIN inh THEN DOMAIN ss ELSE DOMAIN ss \cup {id}
    IN  [k \in keys |->
            IF k \in DOMAIN ss THEN [ss[k] EXCEPT !.lastActive = t]
            ELSE [history |-> ref, lastActive |-> t]]

\* the sessions object after "initialize or update": ref is the reference
\* the new history array gets when one is created
GetOrCreate(ss, inh, id, ref, t) ==
    IF Truthy(ss, inh, id)
    THEN IF id \in DOMAIN ss
         THEN [ss EXCEPT ![id].lastActive = t]
         ELSE ss
    ELSE [k \in DOMAIN ss \cup {id} |->
            IF k = id THEN [history |-> ref, lastActive |-> t] ELSE ss[k]]


\* the same object with one property assigned
SetField(obj, field, val) ==
    [f \in DOMAIN obj \cup {field} |-> IF f = field THEN val ELSE obj[f]]

\* the inherited objects after "sessions[sessionId].lastActive = Date.now()"
\* when sessions[sessionId] is not an own property
TouchInherited(ss, inh, id, t) ==
    IF id \notin DOMAIN ss /\ id \in DOMAIN inh
    THEN [inh EXCEPT ![id] = SetField(@, "lastActive", t)]
    ELSE inh

-----------------------------------------------------------------------------
(* The handler of POST /api/ai, up to the await *)

\* const { prompt, sessionId = 'default' } = req.body
SessionIdOf(body) ==
    IF Has(body, "sessionId") THEN body.sessionId ELSE DefaultSessionId

\* !prompt && !image
Invalid(input) == Falsy(input.body, "prompt") /\ ~Has(input, "file")

TextParts(input) ==
    IF Falsy(input.body, "prompt") THEN << >>
    ELSE << [text |-> input.body.prompt] >>

ImageParts(input) ==
    IF Has(input, "file")
    THEN << [inlineData |-> [mimeType |-> input.file.mimetype,
                             data |-> Base64(input.file.buffer)]] >>
    ELSE << >>

\* the user turn with the image pushed before the text
NewContentImageFirst(input) ==
    [role |-> "user", parts |-> ImageParts(input) \o TextParts(input)]

\* the user turn built from the request
NewContent(input) ==
    [role |-> "user", parts |-> TextParts(input) \o ImageParts(input)]

\* the value of an expression that evaluates to undefined where a reference
\* to an array is expected
NoRef == 0

\* history.unshift(turn) in place of history.push(turn)
Unshift(hp, ref, turn) == [hp EXCEPT ![ref] = <<turn>> \o @]

\* a push that keeps user and assistant turns alternating: a turn with the
\* role of the last turn is dropped
PushAlternating(hp, ref, turn) ==
    IF Len(hp[ref]) > 0 /\ hp[ref][Len(hp[ref])].role = turn.role
    THEN hp
    ELSE [hp EXCEPT ![ref] = Append(@, turn)]

\* a push that keeps the history to its last two turns
PushCapped(hp, ref, turn) ==
    LET pushed == Append(hp[ref], turn)
    IN  [hp EXCEPT ![ref] =
            IF Len(pushed) > 2 THEN SubSeq(pushed, Len(pushed) - 1, Len(pushed))
            ELSE pushed]

\* history.push(turn) on the array behind ref
Push(hp, ref, turn) == [hp EXCEPT ![ref] = Append(@, turn)]

\* callGemini(history): the live array in place of a copy
SpreadAlias(hp, ref) == [heap |-> hp, ref |-> ref]

\* [...history]: a new array holding the elements of the array behind ref
Spread(hp, ref) == [heap |-> Append(hp, hp[ref]), ref |-> Len(hp) + 1]

\* sessions[sessionId].history after "initialize or update"
HistoryOf(ss, id) == IF id \in DOMAIN ss THEN ss[id].history ELSE NoRef

\* the validation placed after "initialize or update" of the default session
RejectLate(r) ==
    LET created == ~Truthy(sessions, inherited, DefaultSessionId)
        hp1 == IF created THEN Append(heap, << >>) ELSE heap
    IN  /\ req' = [req EXCEPT ![r] =
                      [pc |-> "done", status |-> 400,
                       json |-> [error |-> InvalidInputError]]]
        /\ sessions' = GetOrCreate(sessions, inherited, DefaultSessionId,
                                   Len(hp1), now)
        /\ heap' = hp1
        /\ UNCHANGED <<inherited, posted>>

\* res.status(400).json(...)
Reject(r) ==
    /\ req' = [req EXCEPT ![r] =
                  [pc |-> "done", status |-> 400,
                   json |-> [error |-> InvalidInputError]]]
    /\ UNCHANGED <<sessions, inherited, heap, posted>>

\* lines 72-94 for a request that passed the validation
Accept(r, input) ==
    LET id == SessionIdOf(input.body)
        created == ~Truthy(sessions, inherited, id)
        hp1 == IF created THEN Append(heap, << >>) ELSE heap
        ss == GetOrCreate(sessions, inherited, id, Len(hp1), now)
        history == HistoryOf(ss, id)
    IN  /\ sessions' = ss
        /\ inherited' = TouchInherited(sessions, inherited, id, now)
        /\ IF history # NoRef
           THEN LET hp2 == Push(hp1, history, NewContent(input))
                    copy == Spread(hp2, history)
                IN  /\ heap' = copy.heap
                    /\ posted' = Append(posted, copy.ref)
                    /\ req' = [req EXCEPT ![r] =
                                  [pc |-> "awaiting", sessionId |-> id,
                                   newContent |-> NewContent(input),
                                   history |-> history,
                                   contents |-> copy.ref]]
           ELSE \* history.push throws a TypeError, caught at line 98
                /\ heap' = hp1
                /\ posted' = posted
                /\ req' = [req EXCEPT ![r] =
                              [pc |-> "done", sessionId |-> id,
                               newContent |-> NewContent(input),
                               history |-> history,
                               status |-> 500,
                               json |-> [error |-> TypeErrorMessage]]]

\* a request arrives and its handler runs up to the await or to its response
Post(r, input) ==
    /\ req[r].pc = "new"
    /\ r > 1 => req[r - 1].pc # "new"
    /\ IF Invalid(input) THEN Reject(r) ELSE Accept(r, input)
    /\ UNCHANGED <<now, timerDue, sentAt>>

-----------------------------------------------------------------------------
(* callGemini and the handler after the await *)

\* a fallback without parts
FallbackContentEmpty == [parts |-> << >>]

FallbackContent == [parts |-> << [text |-> NoResponseText] >>]

\* response.data?.candidates?.[0]?.content || { parts: [...] }
CallGemini(response) ==
    LET data == response.data
    IN  IF /\ Has(data, "candidates")
           /\ Len(data.candidates) >= 1
           /\ Has(data.candidates[1], "content")
        THEN data.candidates[1].content
        ELSE FallbackContent

\* { role: 'assistant', parts: aiResponse.parts }
AssistantTurn(aiResponse) ==
    IF Has(aiResponse, "parts")
    THEN [role |-> "assistant", parts |-> aiResponse.parts]
    ELSE [role |-> "assistant"]

\* res.json({ response: aiResponse.parts[0].text }), or the catch block when
\* reading parts[0].text throws
Reply(aiResponse) ==
    IF Has(aiResponse, "parts") /\ Len(aiResponse.parts) >= 1
    THEN [status |-> 200,
          json |-> IF Has(aiResponse.parts[1], "text")
                   THEN [response |-> aiResponse.parts[1].text]
                   ELSE [k \in {} |-> ""]]
    ELSE [status |-> 500, json |-> [error |-> TypeErrorMessage]]

\* sessions[sessionId].history read again after the await
ReplyTargetLookup(r) == HistoryOf(sessions, req[r].sessionId)

\* the array the handler pushes the assistant turn to: its local "history"
ReplyTarget(r) == req[r].history

\* the handler's record when the TypeError raised after the await is not
\* caught: no response is sent
DoneUncaught(record, fields) ==
    IF fields.json = [error |-> TypeErrorMessage]
    THEN [record EXCEPT !.pc = "crashed"]
    ELSE [f \in DOMAIN record \cup DOMAIN fields |->
             IF f \in DOMAIN fields THEN fields[f] ELSE record[f]]

\* the handler's record once its response is sent
Done(record, fields) ==
    [f \in DOMAIN record \cup DOMAIN fields |->
        IF f \in DOMAIN fields THEN fields[f] ELSE record[f]]

\* the awaited call settles and the handler runs to its response
Resume(r, response) ==
    /\ req[r].pc = "awaiting"
    /\ IF Has(response, "threw")
       THEN \* callGemini rethrows; the catch block answers
            /\ heap' = heap
            /\ req' = [req EXCEPT ![r] =
                          Done(@, [pc |-> "done", status |-> 500,
                                   json |-> [error |-> UpstreamErrorMessage]])]
       ELSE LET aiResponse == CallGemini(response)
                target == ReplyTarget(r)
                reply == IF target = NoRef
                         THEN [status |-> 500,
                               json |-> [error |-> TypeErrorMessage]]
                         ELSE Reply(aiResponse)
            IN  /\ heap' = IF target = NoRef THEN heap
                           ELSE Push(heap, target, AssistantTurn(aiResponse))
                /\ req' = [req EXCEPT ![r] =
                              Done(@, [pc |-> "done",
                                       aiResponse |-> aiResponse,
                                       status |-> reply.status,
                                       json |-> reply.json])]
    /\ UNCHANGED <<now, timerDue, sessions, inherited, posted, sentAt>>

-----------------------------------------------------------------------------
(* The clock and the sweep *)

\* time passes; the interval timer comes due
Tick(t) ==
    /\ t > now
    /\ now' = t
    /\ timerDue' = TRUE
    /\ UNCHANGED <<sessions, inherited, heap, req, posted, sentAt>>

\* the setInterval callback
SweepExpired ==
    /\ timerDue
    /\ timerDue' = FALSE
    /\ sessions' = Sweep(sessions, now)
    /\ UNCHANGED <<now, inherited, heap, req, posted, sentAt>>

-----------------------------------------------------------------------------
(* Specification *)

Init ==
    /\ now = 0
    /\ timerDue = FALSE
    /\ sessions = [id \in {} |-> [history |-> 0, lastActive |-> 0]]
    /\ inherited = [id \in {"constructor"} |-> [name |-> "Object"]]
    /\ heap = << >>
    /\ req = [r \in ReqIds |-> [pc |-> "new"]]
    /\ posted = << >>
    /\ sentAt = [r \in ReqIds |-> 0]

Next ==
    \/ \E r \in ReqIds, input \in Requests : Post(r, input)
    \/ \E r \in ReqIds, response \in Responses : Resume(r, response)
    \/ \E t \in Times : Tick(t)
    \/ SweepExpired

Spec == Init /\ [][Next]_vars

\* a client that sends a request for a session only when no earlier request
\* for that session is still awaiting its answer
PostInTurn(r, input) ==
    /\ \A q \in ReqIds :
          req[q].pc = "awaiting" => req[q].sessionId # SessionIdOf(input.body)
    /\ Post(r, input)

NextInTurn ==
    \/ \E r \in ReqIds, input \in Requests : PostInTurn(r, input)
    \/ \E r \in ReqIds, response \in Responses : Resume(r, response)
    \/ \E t \in Times : Tick(t)
    \/ SweepExpired

SpecInTurn == Init /\ [][NextInTurn]_vars

-----------------------------------------------------------------------------
(* The program under a clock that keeps the timers *)

\* the requests and the upstream results of the timed specification:
\* requests that pass the validation, for two sessions, and an upstream that
\* answers or fails
TimedRequests ==
    {q \in Requests :
        q.body \in { [prompt |-> "Hello"],
                     [prompt |-> "Hello", sessionId |-> "a"] }}

TimedResponses ==
    {p \in Responses :
        \/ Has(p, "threw")
        \/ CallGemini(p) # FallbackContent /\ Reply(CallGemini(p)).status = 200}

\* a request arrives; axios.post starts its timeout at the call
PostTimed(r, input) ==
    /\ req[r].pc = "new"
    /\ r > 1 => req[r - 1].pc # "new"
    /\ IF Invalid(input) THEN Reject(r) ELSE Accept(r, input)
    /\ sentAt' = [sentAt EXCEPT ![r] = now]
    /\ UNCHANGED <<now, timerDue>>

\* the last instant before t at which the interval timer fires
LastSweepBefore(t) == ((t - 1) \div SWEEP_EVERY) * SWEEP_EVERY

\* the clock reaches the next instant t.  The event loop is idle by then:
\* the sweep that was due has run; every upstream call whose timeout ends
\* before t has settled; and the sweeps due at the instants passed over
\* removed nothing.  The interval timer fires at the multiples of its
\* period.
TickTimed(t) ==
    /\ t > now
    /\ \A i \in Instants : i > now => i >= t
    /\ ~timerDue
    /\ \A r \in ReqIds :
          req[r].pc = "awaiting" => sentAt[r] + UPSTREAM_TIMEOUT >= t
    /\ LastSweepBefore(t) > now =>
          Sweep(sessions, LastSweepBefore(t)) = sessions
    /\ now' = t
    /\ timerDue' = (t % SWEEP_EVERY = 0)
    /\ UNCHANGED <<sessions, inherited, heap, req, posted, sentAt>>

NextTimed ==
    \/ \E r \in ReqIds, input \in TimedRequests : PostTimed(r, input)
    \/ \E r \in ReqIds, response \in TimedResponses : Resume(r, response)
    \/ \E t \in Instants : TickTimed(t)
    \/ SweepExpired

\* timers fire, the clock goes on, and every upstream call settles
SpecTimed ==
    /\ Init
    /\ [][NextTimed]_vars
    /\ WF_vars(\E t \in Instants : TickTimed(t))
    /\ WF_vars(SweepExpired)
    /\ \A r \in ReqIds :
          WF_vars(\E response \in TimedResponses : Resume(r, response))


-----------------------------------------------------------------------------
(* Vocabulary of the claims *)

\* the handler of r got past the validation
Valid(r) == Has(req[r], "newContent")

\* the handler of r reached the upstream call
Called(r) == Has(req[r], "contents")

Succeeded(r) == req[r].pc = "done" /\ req[r].status = 200

\* the valid requests made with session id "id"
CallsWith(id) == {r \in ReqIds : Valid(r) /\ req[r].sessionId = id}

\* the requests handled on the history array of the session now stored
\* under id, that is, since that session was created
CallsSince(id) ==
    {r \in ReqIds : Called(r) /\ req[r].history = sessions[id].history}

RECURSIVE TurnsOfCalls(_, _)
\* user turn and assistant turn of every successful call of R numbered r or
\* higher, in call order
TurnsOfCalls(R, r) ==
    IF r > MaxReq THEN << >>
    ELSE (IF r \in R
          THEN << req[r].newContent, AssistantTurn(req[r].aiResponse) >>
          ELSE << >>) \o TurnsOfCalls(R, r + 1)

\* how long the session has been idle at time t
Idle(session, t) == t - session.lastActive

\* this step is a run of the sweep
SweepStep == timerDue /\ ~timerDue'

-----------------------------------------------------------------------------
(* C1 *)

\* C1 as stated: whenever all requests made so far with a session id are
\* successful calls that took turns, the session stored under that id holds
\* exactly their 2N turns in call order.  (Checked under SpecInTurn; refuted
\* by a sweep between two of the calls.)
C1_AsStated ==
    \A id \in DOMAIN sessions :
        LET R == CallsWith(id)
        IN  (R # {} /\ \A r \in R : Succeeded(r))
                => heap[sessions[id].history] = TurnsOfCalls(R, 1)

\* C1, amended: whenever the N requests handled in a stored session since it
\* was created are successful calls that took turns, its history holds
\* exactly their 2N turns: user turn then assistant turn of each call, in
\* call order.
C1_HistoryOfCallsInTurn ==
    \A id \in DOMAIN sessions :
        LET R == CallsSince(id)
        IN  (R # {} /\ \A r \in R : Succeeded(r))
                => /\ Len(heap[sessions[id].history]) = 2 * Cardinality(R)
                   /\ heap[sessions[id].history] = TurnsOfCalls(R, 1)

C1_Witness ==
    \E id \in DOMAIN sessions :
        /\ Cardinality(CallsSince(id)) >= 2
        /\ \A r \in CallsSince(id) : Succeeded(r)
        /\ Len(heap[sessions[id].history]) >= 4

-----------------------------------------------------------------------------
(* C2 *)

\* the upstream call of r failed: axios threw, or the response's first
\* candidate carries no usable parts
UpstreamFailed(record) ==
    \/ ~Has(record, "aiResponse")
    \/ ~Has(record.aiResponse, "parts")
    \/ record.aiResponse.parts = << >>

\* C2 as stated: when the upstream call of a request fails, the request is
\* answered 500 and its handler leaves the history as it was, with the user
\* turn and without an assistant turn.
C2_AsStated ==
    [][\A r \in ReqIds :
         (req[r].pc = "awaiting" /\ req'[r].pc = "done"
            /\ UpstreamFailed(req'[r]))
         => /\ req'[r].status = 500
            /\ heap'[req[r].history] = heap[req[r].history]
            /\ req[r].newContent \in
                 {heap[req[r].history][i] :
                    i \in 1..Len(heap[req[r].history])}]_vars

-----------------------------------------------------------------------------
(* C3 *)

\* C3 as stated: a run of the sweep removes exactly the sessions idle for
\* SESSION_EXPIRY or longer.
C3_AsStated ==
    [][SweepStep =>
         \A id \in DOMAIN sessions :
            id \notin DOMAIN sessions'
                <=> Idle(sessions[id], now) >= SESSION_EXPIRY]_vars

\* C3, amended: a run of the sweep removes exactly the sessions idle for
\* longer than SESSION_EXPIRY; a session idle for exactly SESSION_EXPIRY
\* stays, as does every session idle for less.
C3_SweepRemovesIdleLonger ==
    [][SweepStep =>
         /\ DOMAIN sessions' \subseteq DOMAIN sessions
         /\ \A id \in DOMAIN sessions :
               id \notin DOMAIN sessions'
                   <=> Idle(sessions[id], now) > SESSION_EXPIRY]_vars

\* after a sweep: one session idle for exactly the expiry is still stored,
\* and the session of another request is gone
C3_Witness ==
    /\ ~timerDue
    /\ \E id \in DOMAIN sessions : Idle(sessions[id], now) = SESSION_EXPIRY
    /\ \E r \in ReqIds : Called(r) /\ req[r].sessionId \notin DOMAIN sessions

-----------------------------------------------------------------------------
(* C4 *)

\* C4: a request with neither a prompt nor an image is answered 400 and the
\* step leaves the session store (ids, histories, lastActive), the inherited
\* objects and the list of upstream calls as they were.
C4_InvalidInputTouchesNothing ==
    [][\A r \in ReqIds, input \in Requests :
         (Post(r, input) /\ Falsy(input.body, "prompt") /\ ~Has(input, "file"))
         => /\ req'[r].pc = "done"
            /\ req'[r].status = 400
            /\ ~Has(req'[r], "contents")
            /\ UNCHANGED <<sessions, inherited, heap, posted>>]_vars

\* a request was answered 400 while a session with a history was stored
C4_Witness ==
    \E r \in ReqIds :
        /\ req[r].pc = "done" /\ req[r].status = 400
        /\ \E id \in DOMAIN sessions : Len(heap[sessions[id].history]) >= 1

-----------------------------------------------------------------------------
(* C5 *)

\* the array behind ref before this step; empty when the step creates it
ArrayBefore(ref) == IF ref <= Len(heap) THEN heap[ref] ELSE << >>

\* C5: the upstream call of a request is made once, with a new array that
\* holds the session's whole history at that moment, ending with the
\* request's user turn; after one earlier successful call in the session it
\* is exactly (user1, assistant1, user2); and no later step changes a
\* payload that was sent.
C5_PayloadIsSnapshotOfHistory ==
    [][/\ \A r \in ReqIds :
            (req[r].pc = "new" /\ req'[r].pc = "awaiting")
            => LET h == req'[r].history
                   c == req'[r].contents
               IN  /\ posted' = Append(posted, c)
                   /\ c # h
                   /\ heap'[c] = Append(ArrayBefore(h), req'[r].newContent)
                   /\ heap'[c] = heap'[h]
                   /\ \A q \in ReqIds \ {r} :
                        (/\ Succeeded(q)
                         /\ {p \in ReqIds : Called(p) /\ req[p].history = h} = {q})
                        => heap'[c] = << req[q].newContent,
                                         AssistantTurn(req[q].aiResponse),
                                         req'[r].newContent >>
       /\ \A r \in ReqIds :
            Called(r) => heap'[req[r].contents] = heap[req[r].contents]]_vars

\* the second of two calls in a session sent three turns, and the turn
\* appended after that call started is in the history but not in the payload
C5_Witness ==
    \E q, r \in ReqIds :
        /\ q # r /\ Succeeded(q) /\ Succeeded(r)
        /\ req[q].history = req[r].history
        /\ Len(heap[req[r].contents]) = 3
        /\ heap[req[r].contents][2].role = "assistant"
        /\ Len(heap[req[r].history]) = 4

-----------------------------------------------------------------------------
(* C6 *)

\* the session r was handled in is no longer the one stored under its id
Orphaned(r) ==
    \/ req[r].sessionId \notin DOMAIN sessions
    \/ sessions[req[r].sessionId].history # req[r].history

\* C6: when the session of a suspended request has been deleted, the next
\* step of its handler sends the normal response: on an upstream answer the
\* assistant turn goes to the array the handler holds and the caller gets
\* 200 with the text of the first part (500 when the answer has no first
\* part); on an upstream error the caller gets 500; the store is not
\* touched.
C6_ResumesAfterDeletion ==
    [][\A r \in ReqIds :
         (req[r].pc = "awaiting" /\ Orphaned(r) /\ req'[r] # req[r])
         => LET h == req[r].history
            IN  /\ req'[r].pc = "done"
                /\ sessions' = sessions
                /\ IF Has(req'[r], "aiResponse")
                   THEN LET ai == req'[r].aiResponse
                        IN  /\ heap'[h] = Append(heap[h], AssistantTurn(ai))
                            /\ IF /\ Has(ai, "parts") /\ ai.parts # << >>
                                  /\ Has(ai.parts[1], "text")
                               THEN /\ req'[r].status = 200
                                    /\ req'[r].json =
                                         [response |-> ai.parts[1].text]
                               ELSE req'[r].status = 500
                   ELSE /\ heap' = heap
                        /\ req'[r].status = 500
                        /\ req'[r].json = [error |-> UpstreamErrorMessage]]_vars

\* the sweep has deleted the session of a request that is suspended on the
\* upstream call
C6_Witness ==
    \E r \in ReqIds :
        /\ req[r].pc = "awaiting"
        /\ req[r].sessionId \notin DOMAIN sessions
        /\ ~timerDue

-----------------------------------------------------------------------------
(* C7 *)

\* this step appends to the history of the session stored under id, or
\* creates that session
Mutates(id) ==
    \/ id \notin DOMAIN sessions
    \/ sessions'[id].history # sessions[id].history
    \/ heap'[sessions'[id].history] # heap[sessions[id].history]

\* this step is the handler of a valid request for id running up to its await
Enters(id) ==
    \E r \in ReqIds :
        /\ req[r].pc = "new" /\ req'[r].pc # "new"
        /\ Has(req'[r], "sessionId") /\ req'[r].sessionId = id

\* C7 as stated: lastActive is the time of the last mutation: every step
\* that creates a stored session or appends a turn to its history sets its
\* lastActive to the time of the step, and no other step changes it.
C7_AsStated ==
    [][\A id \in DOMAIN sessions' :
         IF Mutates(id)
         THEN sessions'[id].lastActive = now'
         ELSE sessions'[id].lastActive = sessions[id].lastActive]_vars

\* C7, amended: lastActive is the time the latest valid request for the id
\* was received: the step that creates the session or appends a user turn
\* sets it to the time of the step, and no other step, the append of an
\* assistant turn included, changes it.
C7_LastActiveIsLastRequest ==
    [][\A id \in DOMAIN sessions' :
         IF Enters(id)
         THEN sessions'[id].lastActive = now'
         ELSE /\ id \in DOMAIN sessions
              /\ sessions'[id].lastActive = sessions[id].lastActive]_vars

\* a stored session whose history got an assistant turn and whose lastActive
\* is earlier than the clock
C7_Witness ==
    \E id \in DOMAIN sessions :
        /\ sessions[id].lastActive < now
        /\ \E r \in CallsSince(id) :
              /\ Succeeded(r)
              /\ heap[sessions[id].history][Len(heap[sessions[id].history])]
                    = AssistantTurn(req[r].aiResponse)

-----------------------------------------------------------------------------
(* C8 *)

\* C8 as stated: for every valid request the get-or-create step succeeds:
\* afterwards a session is stored under the request's id with lastActive at
\* the current time, holding the old history (plus the new user turn) when
\* the id was stored and an empty one (plus the new user turn) otherwise,
\* and the handler goes on to the upstream call.
C8_AsStated ==
    [][\A r \in ReqIds :
         (req[r].pc = "new" /\ req'[r].pc # "new" /\ Has(req'[r], "newContent"))
         => LET id == req'[r].sessionId
            IN  /\ id \in DOMAIN sessions'
                /\ sessions'[id].lastActive = now
                /\ IF id \in DOMAIN sessions
                   THEN /\ sessions'[id].history = sessions[id].history
                        /\ heap'[sessions'[id].history] =
                             Append(heap[sessions[id].history],
                                    req'[r].newContent)
                   ELSE heap'[sessions'[id].history] = << req'[r].newContent >>
                /\ req'[r].pc = "awaiting"]_vars

-----------------------------------------------------------------------------
(* C9 *)

\* C9: a request for a session is accepted while another request for that
\* session is suspended: its user turn is appended whatever the last turn
\* is; and when a suspended request gets its answer, its assistant turn is
\* appended to the history as it then is.
C9_AppendsAreNeverRejected ==
    [][/\ \A a, b \in ReqIds :
            (/\ a # b
             /\ req[a].pc = "awaiting" /\ ~Orphaned(a)
             /\ req[b].pc = "new" /\ req'[b].pc # "new"
             /\ Has(req'[b], "sessionId")
             /\ req'[b].sessionId = req[a].sessionId)
            => /\ req'[b].pc = "awaiting"
               /\ req'[b].history = req[a].history
               /\ heap'[req[a].history] =
                    Append(heap[req[a].history], req'[b].newContent)
       /\ \A a \in ReqIds :
            (req[a].pc = "awaiting" /\ req'[a].pc = "done"
               /\ Has(req'[a], "aiResponse"))
            => heap'[req[a].history] =
                 Append(heap[req[a].history],
                        AssistantTurn(req'[a].aiResponse))]_vars

\* B's user turn sits between A's user turn and A's assistant turn, and the
\* history A appended to was not the snapshot A had sent
C9_Witness ==
    \E a, b \in ReqIds :
        /\ a # b /\ Called(a) /\ Called(b)
        /\ req[a].history = req[b].history
        /\ req[a].pc = "done" /\ Has(req[a], "aiResponse")
        /\ LET h == heap[req[a].history]
           IN  /\ Len(h) >= 3
               /\ h[1] = req[a].newContent /\ h[1].role = "user"
               /\ h[2] = req[b].newContent /\ h[2].role = "user"
               /\ h[3] = AssistantTurn(req[a].aiResponse)
               /\ heap[req[a].contents] # SubSeq(h, 1, 2)
        /\ req[a].sessionId \in DOMAIN sessions
        /\ sessions[req[a].sessionId].history = req[a].history

-----------------------------------------------------------------------------
(* C10 *)

\* C10: a run of the sweep changes no array and leaves every session that is
\* stored after it exactly as it was before it: same history, same
\* lastActive.
C10_SweepLeavesSurvivorsUntouched ==
    [][SweepStep =>
         /\ heap' = heap
         /\ \A id \in DOMAIN sessions' :
               /\ id \in DOMAIN sessions
               /\ sessions'[id] = sessions[id]]_vars

\* after a sweep that removed a session, another one is still stored with the
\* turns and the lastActive it had
C10_Witness ==
    /\ ~timerDue
    /\ \E r \in ReqIds : Called(r) /\ req[r].sessionId \notin DOMAIN sessions
    /\ \E id \in DOMAIN sessions :
          /\ sessions[id].lastActive < now
          /\ Len(heap[sessions[id].history]) >= 2

-----------------------------------------------------------------------------
(* C11 *)

\* C11: a session that is stored before and after a step keeps its history
\* array, and the step either leaves that array as it is or adds exactly one
\* turn at its end: no turn is removed, replaced or moved.
C11_HistoryIsAppendOnly ==
    [][\A id \in DOMAIN sessions \cap DOMAIN sessions' :
          /\ sessions'[id].history = sessions[id].history
          /\ LET before == heap[sessions[id].history]
                 after == heap'[sessions[id].history]
             IN  \/ after = before
                 \/ /\ Len(after) = Len(before) + 1
                    /\ SubSeq(after, 1, Len(before)) = before]_vars

\* a stored session whose history grew to three turns or more, two of them
\* user turns in a row
C11_Witness ==
    \E id \in DOMAIN sessions :
        LET h == heap[sessions[id].history]
        IN  /\ Len(h) >= 3
            /\ h[1].role = "user" /\ h[2].role = "user"
            /\ h[3].role = "assistant"

-----------------------------------------------------------------------------
(* C12 *)

-----------------------------------------------------------------------------
(* C13 *)

\* the upstream answered, and its body holds no candidate
NoCandidates(response) ==
    /\ Has(response, "data")
    /\ Has(response.data, "candidates") => response.data.candidates = << >>

\* C13: when the upstream call of a request returns a well-formed body
\* without candidates, the handler appends to the request's history an
\* assistant turn whose single part is the text "No response from AI." and
\* answers 200 with that text.
C13_NoCandidatesIsAnswered200 ==
    [][\A r \in ReqIds, response \in Responses :
          (NoCandidates(response) /\ Resume(r, response)) =>
              /\ heap'[req[r].history] =
                    Append(heap[req[r].history],
                           [role |-> "assistant",
                            parts |-> << [text |-> "No response from AI."] >>])
              /\ req'[r].pc = "done"
              /\ req'[r].status = 200
              /\ req'[r].json = [response |-> "No response from AI."]]_vars

\* a request answered 200 with the fallback text, the fallback turn being the
\* last turn of its session's history
C13_Witness ==
    \E r \in ReqIds :
        /\ Succeeded(r)
        /\ req[r].json = [response |-> "No response from AI."]
        /\ req[r].sessionId \in DOMAIN sessions
        /\ LET h == heap[sessions[req[r].sessionId].history]
           IN  /\ Len(h) >= 2
               /\ h[Len(h)] = [role |-> "assistant",
                               parts |-> << [text |-> "No response from AI."] >>]
               /\ h[Len(h) - 1] = req[r].newContent

-----------------------------------------------------------------------------
(* C15 *)

\* the turns of the session stored under id, none when no session is stored
TurnsOf(ss, hp, id) == IF id \in DOMAIN ss THEN hp[ss[id].history] ELSE << >>

\* C15: a valid request without sessionId is handled in the session named
\* "default": the step creates that session if it is not stored and no other
\* session, keeps its history array if it is stored, appends the user turn
\* to it and calls the upstream with the turns so far; with an empty store
\* and the prompt "Hello" the store then holds the one session "default" and
\* the payload is the one user turn with the one part text "Hello".  When the
\* upstream replies with a text, the assistant turn is appended to that
\* history and the text is returned.
C15_NoSessionIdMeansDefault ==
    [][/\ \A r \in ReqIds, input \in Requests :
             (/\ Post(r, input)
              /\ ~Has(input.body, "sessionId")
              /\ ~Invalid(input)) =>
                 LET turn == [role |-> "user",
                              parts |-> << [text |-> input.body.prompt] >>]
                     before == TurnsOf(sessions, heap, "default")
                 IN  /\ req'[r].pc = "awaiting"
                     /\ req'[r].sessionId = "default"
                     /\ DOMAIN sessions' = DOMAIN sessions \cup {"default"}
                     /\ "default" \in DOMAIN sessions =>
                           sessions'["default"].history
                               = sessions["default"].history
                     /\ req'[r].history = sessions'["default"].history
                     /\ TurnsOf(sessions', heap', "default")
                           = Append(before, turn)
                     /\ posted' = Append(posted, req'[r].contents)
                     /\ heap'[req'[r].contents] = Append(before, turn)
                     /\ (DOMAIN sessions = {} /\ input.body.prompt = "Hello")
                           => /\ DOMAIN sessions' = {"default"}
                              /\ heap'[req'[r].contents]
                                    = << [role |-> "user",
                                          parts |-> << [text |-> "Hello"] >>] >>
       /\ \A r \in ReqIds, response \in Responses :
             (/\ Resume(r, response)
              /\ req[r].sessionId = "default"
              /\ Has(response, "data")
              /\ ~NoCandidates(response)
              /\ Has(response.data.candidates[1].content, "parts")) =>
                 LET parts == response.data.candidates[1].content.parts
                 IN  /\ heap'[req[r].history]
                           = Append(heap[req[r].history],
                                    [role |-> "assistant", parts |-> parts])
                     /\ req'[r].status = 200
                     /\ req'[r].json = [response |-> parts[1].text]]_vars

\* the store holds the one session "default", with the turns of two answered
\* requests in its history
C15_Witness ==
    /\ DOMAIN sessions = {"default"}
    /\ \A r \in ReqIds : Succeeded(r) /\ req[r].sessionId = "default"
    /\ LET h == heap[sessions["default"].history]
           user == [role |-> "user", parts |-> << [text |-> "Hello"] >>]
           assistant == [role |-> "assistant",
                         parts |-> << [text |-> "Hi there"] >>]
       IN  h = << user, assistant, user, assistant >>

-----------------------------------------------------------------------------
(* C14 *)

\* how many times the upstream was called with the payload of request r
UpstreamCalls(r) ==
    IF Called(r)
    THEN Cardinality({i \in DOMAIN posted : posted[i] = req[r].contents})
    ELSE 0

\* C14 as stated: every request that passed the validation is awaiting the
\* upstream call or has ended, and the upstream was called exactly once for
\* it.
C14_AsStated ==
    \A r \in ReqIds :
        Valid(r) => /\ req[r].pc \in {"awaiting", "done"}
                    /\ UpstreamCalls(r) = 1

-----------------------------------------------------------------------------
(* C16 *)

\* C16: the turn that a valid request appends to its history has the role
\* "user"; its parts are the text part when only a prompt is given, the
\* inline-data part (mime type, base64 of the bytes) when only an image is
\* given, and the text part followed by the inline-data part when both are.
C16_UserTurnParts ==
    [][\A r \in ReqIds, input \in Requests :
          (Post(r, input) /\ req'[r].pc = "awaiting") =>
              LET hasPrompt == Has(input.body, "prompt")
                                   /\ input.body.prompt # ""
                  hasImage == Has(input, "file")
                  text == [text |-> input.body.prompt]
                  image == [inlineData |->
                               [mimeType |-> "image/png",
                                data |-> << "i", "V", "A", "=" >>]]
                  after == heap'[req'[r].history]
                  turn == after[Len(after)]
              IN  /\ Len(after) = Len(TurnsOf(sessions, heap,
                                              req'[r].sessionId)) + 1
                  /\ turn.role = "user"
                  /\ hasPrompt \/ hasImage
                  /\ (hasPrompt /\ ~hasImage) => turn.parts = << text >>
                  /\ (~hasPrompt /\ hasImage) => turn.parts = << image >>
                  /\ (hasPrompt /\ hasImage) => turn.parts = << text, image >>
      ]_vars

\* a history holding a user turn of two parts, text then image, and a user
\* turn whose one part is an image
C16_Witness ==
    \E id \in DOMAIN sessions :
        LET h == heap[sessions[id].history]
        IN  /\ \E i \in DOMAIN h :
                  /\ h[i].role = "user" /\ Len(h[i].parts) = 2
                  /\ Has(h[i].parts[1], "text")
                  /\ Has(h[i].parts[2], "inlineData")
            /\ \E i \in DOMAIN h :
                  /\ h[i].role = "user" /\ Len(h[i].parts) = 1
                  /\ Has(h[i].parts[1], "inlineData")

-----------------------------------------------------------------------------
(* C18 *)

\* the number of turns with the given role among the first n turns of h
CountRole(h, n, role) == Cardinality({i \in 1..n : h[i].role = role})

\* C18: in the history of every stored session, every prefix holds at least
\* as many user turns as assistant turns, and a history that is not empty
\* starts with a user turn.
C18_UserTurnsLeadAssistantTurns ==
    \A id \in DOMAIN sessions :
        LET h == heap[sessions[id].history]
        IN  /\ \A n \in 0..Len(h) :
                  CountRole(h, n, "user") >= CountRole(h, n, "assistant")
            /\ Len(h) > 0 => h[1].role = "user"

\* a history of interleaved requests: two user turns, then the two assistant
\* turns, one of them pushed without parts by a request answered 500
C18_Witness ==
    \E id \in DOMAIN sessions :
        LET h == heap[sessions[id].history]
        IN  /\ Len(h) = 4
            /\ h[1].role = "user" /\ h[2].role = "user"
            /\ h[3].role = "assistant" /\ h[4].role = "assistant"
            /\ \E i \in 3..4 : ~Has(h[i], "parts")
            /\ \E r \in ReqIds : req[r].pc = "done" /\ req[r].status = 500

-----------------------------------------------------------------------------
(* C19 *)

\* the step leaves every session stored under an id other than a as it is:
\* none is created, none is removed, none changes its fields or its turns
OthersUnchanged(a) ==
    \A id \in (DOMAIN sessions \cup DOMAIN sessions') \ {a} :
        /\ id \in DOMAIN sessions
        /\ id \in DOMAIN sessions'
        /\ sessions'[id] = sessions[id]
        /\ heap'[sessions[id].history] = heap[sessions[id].history]

\* C19: a step of the handler of a request for session id A, before or after
\* the await and whatever its answer (200, 400 or 500), creates, removes and
\* changes no session stored under another id.
C19_OtherSessionsUntouched ==
    [][/\ \A r \in ReqIds, input \in Requests :
             Post(r, input) => OthersUnchanged(SessionIdOf(input.body))
       /\ \A r \in ReqIds, response \in Responses :
             Resume(r, response) => OthersUnchanged(req[r].sessionId)]_vars

\* two sessions are stored, one last used before the other, each with the
\* turns of an answered request, one of the answers being a 500
C19_Witness ==
    \E a, b \in ReqIds :
        /\ req[a].pc = "done" /\ req[b].pc = "done"
        /\ Called(a) /\ Called(b)
        /\ req[a].status = 500 /\ req[b].status = 200
        /\ req[a].sessionId # req[b].sessionId
        /\ req[a].sessionId \in DOMAIN sessions
        /\ req[b].sessionId \in DOMAIN sessions
        /\ sessions[req[a].sessionId].lastActive
              < sessions[req[b].sessionId].lastActive
        /\ Len(heap[sessions[req[a].sessionId].history]) >= 1
        /\ Len(heap[sessions[req[b].sessionId].history]) = 2

-----------------------------------------------------------------------------
(* C17 *)

\* C17: with the expiry of 30 minutes, the upstream timeout of 30 seconds
\* and the sweep of every minute, the session of a request that is awaiting
\* the upstream call is stored, with the history array the request appended
\* its user turn to: no sweep has removed it.
C17_NoSweepOfAwaitedSession ==
    \A r \in ReqIds :
        req[r].pc = "awaiting" =>
            /\ req[r].sessionId \in DOMAIN sessions
            /\ sessions[req[r].sessionId].history = req[r].history
            /\ ~Expired(sessions[req[r].sessionId], now)

\* the sweep that was due past the expiry has just run and removed the
\* session of an earlier request, while a request of another session is
\* awaiting the upstream call it made before that sweep
C17_Witness ==
    /\ now > SESSION_EXPIRY /\ now % SWEEP_EVERY = 0 /\ ~timerDue
    /\ \E q \in ReqIds :
          Called(q) /\ req[q].sessionId \notin DOMAIN sessions
    /\ \E r \in ReqIds :
          /\ req[r].pc = "awaiting"
          /\ sentAt[r] < now
          /\ req[r].sessionId \in DOMAIN sessions

-----------------------------------------------------------------------------
(* C20 *)

\* the ids of the sessions of the timed specification
TimedIds == {SessionIdOf(q.body) : q \in TimedRequests}

\* the last instant of the timed clock
LastInstant == SESSION_EXPIRY + MaxLate * (SWEEP_EVERY \div 2)

\* when the last of the requests handled in the session stored under id
\* started
LastRequestAt(id) ==
    CHOOSE t \in {sentAt[r] : r \in CallsSince(id)} :
        \A r \in CallsSince(id) : sentAt[r] <= t

\* C20: a stored session was last requested less than the expiry plus one
\* sweep period ago, or exactly that long ago with the sweep due; a run of
\* the sweep removes exactly the sessions last requested more than the
\* expiry ago; a valid request for an id that is not stored, also one whose
\* earlier session was removed, starts a history that holds its own user
\* turn only and sends only that turn upstream; and a session that gets no
\* further request is removed (as far as the clock of the model goes).
C20_IdleSessionIsRemoved ==
    /\ [](\A id \in DOMAIN sessions :
             LET idle == now - LastRequestAt(id)
             IN  \/ idle < SESSION_EXPIRY + SWEEP_EVERY
                 \/ idle = SESSION_EXPIRY + SWEEP_EVERY /\ timerDue)
    /\ [][SweepStep =>
             \A id \in DOMAIN sessions :
                 id \notin DOMAIN sessions'
                     <=> now - LastRequestAt(id) > SESSION_EXPIRY]_vars
    /\ [][\A r \in ReqIds, input \in TimedRequests :
             (/\ PostTimed(r, input)
              /\ ~Invalid(input)
              /\ SessionIdOf(input.body) \notin DOMAIN sessions) =>
                 /\ heap'[sessions'[SessionIdOf(input.body)].history]
                       = << req'[r].newContent >>
                 /\ heap'[req'[r].contents] = << req'[r].newContent >>
                 /\ req'[r].newContent.role = "user"]_vars
    /\ \A id \in TimedIds, last \in Instants :
          last + SESSION_EXPIRY + SWEEP_EVERY <= LastInstant =>
              ((id \in DOMAIN sessions /\ sessions[id].lastActive = last)
                  ~> (id \notin DOMAIN sessions
                          \/ sessions[id].lastActive # last))

\* a session with turns was removed by the sweep, and a request made with
\* its id more than the expiry after the last one started a new session
\* whose payload was its own user turn
C20_Witness ==
    \E a, b \in ReqIds :
        /\ Called(a) /\ Called(b)
        /\ req[a].sessionId = req[b].sessionId
        /\ req[a].history # req[b].history
        /\ Len(heap[req[a].history]) >= 2
        /\ sentAt[b] - sentAt[a] > SESSION_EXPIRY
        /\ heap[req[b].contents] = << req[b].newContent >>
        /\ req[b].sessionId \in DOMAIN sessions
        /\ sessions[req[b].sessionId].history = req[b].history

=============================================================================
